---- MODULE Spec2Model ----
(***************************************************************************)
(* Multi-pass fact-check verification pipeline (CodeBase/*.py).            *)
(*                                                                         *)
(* Conventions                                                             *)
(*   - A JSON file on disk is a record [exists, data].                     *)
(*   - A JSON object is a function over its keys (a record); a key the     *)
(*     object lacks is not in its DOMAIN.  A JSON value that is not an     *)
(*     object is wrapped as [scalar |-> v].                                *)
(*   - Floats written with round(x, 4) are integers counting 1/10000.      *)
(*   - A text is a sequence of one-character strings, so that strip() and  *)
(*     lower() are computed.                                               *)
(*   - statistics.mode is the Python >= 3.8 function (the Gemini SDK the   *)
(*     code imports needs Python >= 3.9): on a tie it returns the first    *)
(*     mode met and raises only on empty data.                             *)
(***************************************************************************)
EXTENDS Integers, Sequences, FiniteSets, TLC

VARIABLES
    assertionsFile,   \* run id -> output/assertions_run<id>.json
    resultsFile,      \* run id -> output/fact_check_results_run<id>.json
    strayResults,     \* output/fact_check_results_run<non-number>.json exists
    globOrder,        \* order in which glob.glob lists the result files
    evidenceFile,     \* output/evidence_store.json
    rawFile,          \* output/verification_raw_passes.json
    aggFile,          \* output/verification_aggregated.json
    masterFile,       \* output/master_flagged_assertions.json
    s2pc,             \* position inside run_stage2_verification
    num_passes,       \* its argument
    p,                \* next pass of the loop at line 106
    assertions,       \* its local, loaded at line 88
    evidence_store,   \* its local, loaded at line 89
    all_pass_results, \* its local, line 101
    responses,        \* oracle responses received so far, one per pass
    prompts,          \* prompts sent so far, one per pass
    mergepc,          \* position of merge_flagged_assertions
    decIn,            \* arguments given to _compute_final_decision
    decOut,           \* its return value
    finalFile,        \* output/final_results.json
    summaryFile,      \* output/final_summary.txt, as the numbers it reports
    s3pc,             \* position of generate_final_summary
    mainpc,           \* position inside run_full_pipeline
    chapter,          \* the chapter file: "missing", "empty" or "text"
    s1pc,             \* position inside run_stage1
    attempt,          \* oracle calls made by extract_assertions
    extractResponses, \* what the oracle did at each of them
    extracted,        \* what extract_assertions returned
    fcapc,            \* position inside fact_check_assertions
    fcaArg,           \* its assertions argument
    fcaResults,       \* its local list of verdict records (results)
    self_evidence,    \* self.evidence_store of the checker
    fcaCalls          \* what the oracle did at each fact_check_single_pass

vars == <<assertionsFile, resultsFile, strayResults, globOrder, evidenceFile,
          rawFile, aggFile, masterFile, s2pc, num_passes, p, assertions,
          evidence_store, all_pass_results, responses, prompts, mergepc,
          decIn, decOut, finalFile, summaryFile, s3pc, mainpc, chapter,
          s1pc, attempt, extractResponses, extracted, fcapc, fcaArg, fcaResults, self_evidence,
          fcaCalls>>

fileVars == <<assertionsFile, resultsFile, strayResults, globOrder,
              evidenceFile>>
s2Vars == <<s2pc, num_passes, p, assertions, evidence_store,
            all_pass_results, responses, prompts>>
decVars == <<decIn, decOut>>
s3Vars == <<finalFile, summaryFile, s3pc>>
mainVars == <<mainpc, chapter>>
s1Vars == <<s1pc, attempt, extractResponses, extracted>>
fcaVars == <<fcapc, fcaArg, fcaResults, self_evidence, fcaCalls>>

-----------------------------------------------------------------------------
(* Bounds *)

MaxPasses == 3
\* most rows in the Stage-1 files of run 1
MaxRows == 2

-----------------------------------------------------------------------------
(* Generic helpers *)

Range(s) == {s[i] : i \in 1..Len(s)}

HasKey(r, k) == k \in DOMAIN r

\* dict.get(k, default)
Get(r, k, default) == IF k \in DOMAIN r THEN r[k] ELSE default

\* r.setdefault(k, v): a key the dict already has keeps its value
SetDefault(r, k, v) ==
    [x \in (DOMAIN r) \cup {k} |-> IF x \in DOMAIN r THEN r[x] ELSE v]

\* r[k] = v on a dict
SetKey(r, k, v) ==
    [x \in (DOMAIN r) \cup {k} |-> IF x = k THEN v ELSE r[x]]

IsObject(r) == ~ HasKey(r, "scalar")

NoFile == [exists |-> FALSE, data |-> <<>>]
File(d) == [exists |-> TRUE, data |-> d]

\* list.count(x)
RECURSIVE CountOf(_, _)
CountOf(s, x) ==
    IF s = <<>> THEN 0
    ELSE (IF Head(s) = x THEN 1 ELSE 0) + CountOf(Tail(s), x)

RECURSIVE SumSeq(_)
SumSeq(s) == IF s = <<>> THEN 0 ELSE Head(s) + SumSeq(Tail(s))

\* str(idx) for the ids of the model
DigitStr == <<"0", "1", "2", "3", "4", "5", "6", "7", "8", "9">>
Str(i) == DigitStr[i + 1]

\* round(a / b, 4) with a already scaled by 10000: round-half-even, as
\* Python's round.  Within the bounds no quotient falls on an exact half,
\* so the float result and this exact result agree.
Round4Div(a, b) ==
    LET q == a \div b
        r == a % b
    IN  IF 2 * r < b THEN q
        ELSE IF 2 * r > b THEN q + 1
        ELSE IF q % 2 = 0 THEN q ELSE q + 1

Scale == 10000

-----------------------------------------------------------------------------
(* Labels and oracle outputs *)

Labels == {"Supported", "Refuted", "Uncertain"}

\* A label the oracle may write although the prompt does not offer it.
OtherLabel == "Partially Supported"

Item(i, l, c) == [index |-> i, final_verdict |-> l, confidence |-> c]

\* Items of a batch response: well-formed ones, one carrying a pass_id of
\* the oracle's own, one for an id that is in no assertions file, and the
\* schema-mismatched ones (not an object, or lacking a key).
GoodItems ==
    { Item(0, "Supported", 9000), Item(0, "Refuted", 9000),
      Item(0, "Uncertain", 5000), Item(0, OtherLabel, 5000),
      Item(1, "Refuted", 5000), Item(7, "Refuted", 9000) }

OwnPassIdItem ==
    [index |-> 0, final_verdict |-> "Supported", confidence |-> 5000,
     pass_id |-> 9]

NotObjectItem == [scalar |-> "5"]
NoIndexItem == [final_verdict |-> "Supported", confidence |-> 9000]
NoVerdictItem == [index |-> 0, confidence |-> 9000]
NoConfidenceItem == [index |-> 0, final_verdict |-> "Supported"]

BadItems == {NotObjectItem, NoIndexItem, NoVerdictItem, NoConfidenceItem}

\* What checker.model.generate_content can do in one pass: raise, or
\* return a text that is not JSON, or a text that is JSON of some shape.
RaiseResponse == [kind |-> "raise", items |-> <<>>]
NonJsonResponse == [kind |-> "nonjson", items |-> <<>>]
NumberResponse == [kind |-> "number", items |-> <<>>]
ArrayResponse(items) == [kind |-> "array", items |-> items]
\* a JSON object; iterating it yields its keys, which are strings
ObjectResponse(keys) ==
    [kind |-> "object",
     items |-> [i \in 1..Len(keys) |-> [scalar |-> keys[i]]]]

Responses ==
    {RaiseResponse, NonJsonResponse, NumberResponse,
     ObjectResponse(<<>>), ObjectResponse(<<"index">>),
     ArrayResponse(<<>>)}
    \cup {ArrayResponse(<<it>>) : it \in GoodItems \cup BadItems}
    \cup {ArrayResponse(<<OwnPassIdItem>>),
          ArrayResponse(<<Item(0, "Supported", 9000),
                          Item(1, "Refuted", 5000)>>),
          ArrayResponse(<<Item(0, "Supported", 9000),
                          Item(0, "Refuted", 9000)>>),
          ArrayResponse(<<Item(0, "Refuted", 9000), NotObjectItem>>)}

-----------------------------------------------------------------------------
(* run_stage2_verification.py *)

\* _load_json(path, default): the default when the file is missing
LoadJson(file, default) == IF file.exists THEN file.data ELSE default

\* a test that takes every loaded value for present
NeverFalsy(v) == FALSE

\* `if not assertions`: empty list, empty dict
Falsy(v) == v = <<>>

\* BuildBatchPrompt looking evidence up by list position instead of by id
BuildBatchPromptByPosition(a, store) ==
    [i \in 1..Len(a) |->
        [index |-> a[i]["index"],
         assertion |-> a[i]["original_statement"],
         evidence |-> Get(Get(store, Str(i - 1), <<>>),
                          "evidence_docs", <<>>)]]

\* _build_batch_prompt: the items array embedded in the prompt text
BuildBatchPrompt(a, store) ==
    [i \in 1..Len(a) |->
        [index |-> a[i]["index"],
         assertion |-> a[i]["original_statement"],
         evidence |-> Get(Get(store, Str(a[i]["index"]), <<>>),
                          "evidence_docs", <<>>)]]

\* `for r in results` when results is the parsed response
Iterable(resp) == resp.kind \in {"array", "object"}

\* Index of the first element on which r["pass_id"] = p raises, or 0
FirstNotObject(items) ==
    IF \E i \in 1..Len(items) : ~ IsObject(items[i])
    THEN CHOOSE i \in 1..Len(items) :
            /\ ~ IsObject(items[i])
            /\ \A j \in 1..(i - 1) : IsObject(items[j])
    ELSE 0

\* PassRecords substituting a fallback verdict for a pass that did not parse
PassRecordsWithFallback(resp, pass) ==
    IF resp.kind = "nonjson"
    THEN << [index |-> 0, final_verdict |-> "Uncertain", confidence |-> 0,
             pass_id |-> pass] >>
    ELSE IF ~ Iterable(resp) THEN <<>>
    ELSE LET stop == FirstNotObject(resp.items)
             n == IF stop = 0 THEN Len(resp.items) ELSE stop - 1
         IN  [i \in 1..n |-> SetKey(resp.items[i], "pass_id", pass)]

\* lines 121-129: the records one pass appends to all_pass_results
PassRecords(resp, pass) ==
    IF resp.kind = "nonjson" \/ ~ Iterable(resp) THEN <<>>
    ELSE LET stop == FirstNotObject(resp.items)
             n == IF stop = 0 THEN Len(resp.items) ELSE stop - 1
         IN  [i \in 1..n |-> SetKey(resp.items[i], "pass_id", pass)]

\* lines 113-129: does the pass end in an uncaught exception
PassRaises(resp) ==
    \/ resp.kind = "raise"
    \/ resp.kind = "number"
    \/ Iterable(resp) /\ FirstNotObject(resp.items) # 0

\* statistics.mode (Python >= 3.8): the first of the most frequent values
Mode(verdicts) ==
    LET best == CHOOSE i \in 1..Len(verdicts) :
                  /\ \A j \in 1..Len(verdicts) :
                        CountOf(verdicts, verdicts[j])
                            <= CountOf(verdicts, verdicts[i])
                  /\ \A j \in 1..(i - 1) :
                        CountOf(verdicts, verdicts[j])
                            < CountOf(verdicts, verdicts[i])
    IN  verdicts[best]

\* lines 153-157
Majority(verdicts) ==
    IF verdicts = <<>> THEN "Uncertain" ELSE Mode(verdicts)

\* AgreementRatio with the configured number of passes as denominator
AgreementRatioOverPasses(verdicts, majority) ==
    Round4Div(Scale * CountOf(verdicts, majority), MaxPasses)

\* line 159, with the rounding of line 164
AgreementRatio(verdicts, majority) ==
    Round4Div(Scale * CountOf(verdicts, majority), Len(verdicts))

\* the sum of the confidences, not divided by their number
TotalConfidence(confs) == SumSeq(confs)

\* line 165
MeanConfidence(confs) == Round4Div(SumSeq(confs), Len(confs))

\* lines 148-169: one AggregateRecord
Aggregate(idx, results) ==
    LET verdicts == [i \in 1..Len(results) |-> results[i]["final_verdict"]]
        confs == [i \in 1..Len(results) |-> results[i]["confidence"]]
        majority == Majority(verdicts)
    IN  [index |-> idx,
         majority_verdict |-> majority,
         agreement_ratio |-> AgreementRatio(verdicts, majority),
         mean_confidence |-> MeanConfidence(confs),
         num_supported |-> CountOf(verdicts, "Supported"),
         num_refuted |-> CountOf(verdicts, "Refuted"),
         num_uncertain |-> CountOf(verdicts, "Uncertain")]

\* the records of one group, in list order
GroupOf(all, idx) == SelectSeq(all, LAMBDA r : r["index"] = idx)

\* lines 142-144: the keys of `grouped`, in insertion order
RECURSIVE GroupKeys(_)
GroupKeys(all) ==
    IF all = <<>> THEN <<>>
    ELSE LET front == SubSeq(all, 1, Len(all) - 1)
             last == all[Len(all)]["index"]
             keys == GroupKeys(front)
         IN  IF last \in Range(keys) THEN keys ELSE Append(keys, last)

\* lines 142-169 raise KeyError when a record lacks a key they read
AggregationRaises(all) ==
    \E i \in 1..Len(all) :
        \/ ~ HasKey(all[i], "index")
        \/ ~ HasKey(all[i], "final_verdict")
        \/ ~ HasKey(all[i], "confidence")

\* AggregateAll leaving out the ids that have a single sample
AggregateAllRepeated(all) ==
    LET keys == SelectSeq(GroupKeys(all),
                          LAMBDA k : Len(GroupOf(all, k)) >= 2)
    IN  [k \in 1..Len(keys) |-> Aggregate(keys[k], GroupOf(all, keys[k]))]

\* lines 146-169: the `aggregated` list
AggregateAll(all) ==
    LET keys == GroupKeys(all)
    IN  [k \in 1..Len(keys) |-> Aggregate(keys[k], GroupOf(all, keys[k]))]

-----------------------------------------------------------------------------
(* Contents of the output directory before a stage runs *)

RunIds == {1, 2}

Text1 == <<"H", "2", "O">>
Text2 == <<"h", "2", "o", " ">>
Text3 == <<"N", "a">>

Assertion(i, t) == [index |-> i, original_statement |-> t]

EvidenceEntry(t, docs) == [assertion |-> t, evidence_docs |-> docs]

\* evidence_store.json as fact_check_assertions writes it: keys are str(idx)
Store01 ==
    (Str(0) :> EvidenceEntry(Text1, <<"pubmed-a", "local-b">>))
    @@ (Str(1) :> EvidenceEntry(Text3, <<"web-c">>))

AssertionFiles ==
    {NoFile, File(<<>>),
     File(<<Assertion(0, Text1)>>),
     File(<<Assertion(0, Text1), Assertion(1, Text3)>>),
     File(<<Assertion(0, Text1), Assertion(2, Text3)>>)}

EvidenceFiles == {NoFile, File(Store01)}

NoRuns == [r \in RunIds |-> NoFile]

NoDecision == [initial |-> "None", majority |-> "None", ratio |-> 0]

\* generate_final_summary has not been called and left nothing on disk
Stage3Idle ==
    /\ finalFile = NoFile
    /\ summaryFile = NoFile
    /\ s3pc = "idle"

\* run_full_pipeline is not running
MainIdle ==
    /\ mainpc = "idle"
    /\ chapter = "text"

\* run_stage1 and fact_check_assertions have not been called
Stage1Idle ==
    /\ s1pc = "idle"
    /\ attempt = 0
    /\ extractResponses = <<>>
    /\ extracted = <<>>
    /\ fcapc = "idle"
    /\ fcaArg = <<>>
    /\ fcaResults = <<>>
    /\ self_evidence = <<>>
    /\ fcaCalls = <<>>

-----------------------------------------------------------------------------
(* run_stage2_verification, lines 83-174 *)

\* lines 86-101: load, check the preconditions, start the loop
S2Start(n) ==
    /\ s2pc = "idle"
    /\ num_passes' = n
    /\ assertions' = LoadJson(assertionsFile[1], <<>>)
    /\ evidence_store' = LoadJson(evidenceFile, <<>>)
    /\ s2pc' = IF Falsy(assertions') \/ Falsy(evidence_store') THEN "aborted"
               ELSE IF n = 0 THEN "saveraw" ELSE "passes"
    /\ p' = 1
    /\ all_pass_results' = <<>>
    /\ responses' = <<>>
    /\ prompts' = <<>>
    /\ UNCHANGED <<s3Vars, mainVars, s1Vars, fcaVars, fileVars, rawFile, aggFile, masterFile, mergepc, decVars>>

\* a loop that is left after the first pass instead of after num_passes
S2PassOnce(resp) ==
    /\ s2pc = "passes"
    /\ p <= num_passes
    /\ prompts' = Append(prompts, BuildBatchPrompt(assertions, evidence_store))
    /\ responses' = Append(responses, resp)
    /\ all_pass_results' = all_pass_results \o PassRecords(resp, p)
    /\ p' = p + 1
    /\ s2pc' = IF PassRaises(resp) THEN "crashed" ELSE "saveraw"
    /\ UNCHANGED <<s3Vars, mainVars, s1Vars, fcaVars, fileVars, rawFile,
                   aggFile, masterFile, mergepc, decVars, num_passes,
                   assertions, evidence_store>>

\* lines 106-129: one pass of the loop, resp being what the oracle does
S2Pass(resp) ==
    /\ s2pc = "passes"
    /\ p <= num_passes
    /\ prompts' = Append(prompts, BuildBatchPrompt(assertions, evidence_store))
    /\ responses' = Append(responses, resp)
    /\ all_pass_results' = all_pass_results \o PassRecords(resp, p)
    /\ p' = p + 1
    /\ s2pc' = IF PassRaises(resp) THEN "crashed"
               ELSE IF p = num_passes THEN "saveraw" ELSE "passes"
    /\ UNCHANGED <<s3Vars, mainVars, s1Vars, fcaVars, fileVars, rawFile, aggFile, masterFile, mergepc, decVars,
                   num_passes, assertions, evidence_store>>

\* line 134
S2SaveRaw ==
    /\ s2pc = "saveraw"
    /\ rawFile' = File(all_pass_results)
    /\ s2pc' = "aggregate"
    /\ UNCHANGED <<s3Vars, mainVars, s1Vars, fcaVars, fileVars, aggFile, masterFile, mergepc, decVars,
                   num_passes, p, assertions, evidence_store,
                   all_pass_results, responses, prompts>>

\* lines 142-171
S2Aggregate ==
    /\ s2pc = "aggregate"
    /\ IF AggregationRaises(all_pass_results)
       THEN /\ s2pc' = "crashed"
            /\ UNCHANGED aggFile
       ELSE /\ s2pc' = "done"
            /\ aggFile' = File(AggregateAll(all_pass_results))
    /\ UNCHANGED <<s3Vars, mainVars, s1Vars, fcaVars, fileVars, rawFile, masterFile, mergepc, decVars,
                   num_passes, p, assertions, evidence_store,
                   all_pass_results, responses, prompts>>

Init ==
    /\ assertionsFile \in {[NoRuns EXCEPT ![1] = f] : f \in AssertionFiles}
    /\ resultsFile = NoRuns
    /\ strayResults = FALSE
    /\ globOrder = <<>>
    /\ evidenceFile \in EvidenceFiles
    /\ rawFile = NoFile
    /\ aggFile = NoFile
    /\ masterFile = NoFile
    /\ s2pc = "idle"
    /\ num_passes = 0
    /\ p = 1
    /\ assertions = <<>>
    /\ evidence_store = <<>>
    /\ all_pass_results = <<>>
    /\ responses = <<>>
    /\ prompts = <<>>
    /\ mergepc = "idle"
    /\ decIn = NoDecision
    /\ decOut = "None"
    /\ Stage3Idle
    /\ MainIdle
    /\ Stage1Idle

Next ==
    \/ \E n \in 0..MaxPasses : S2Start(n)
    \/ \E resp \in Responses : S2Pass(resp)
    \/ S2SaveRaw
    \/ S2Aggregate

Spec == Init /\ [][Next]_vars

-----------------------------------------------------------------------------
(* generate_final_summary.py: _compute_final_decision, lines 47-66 *)

\* Python None / JSON null
None == "None"

\* x or "Uncertain"
OrUncertain(x) == IF x = None \/ x = "" THEN "Uncertain" ELSE x

\* strong = 0.6, in 1/10000
Strong == 6000

\* _compute_final_decision with a strict comparison
ComputeFinalDecisionStrict(initial_verdict, majority_verdict, agreement_ratio) ==
    LET majority == OrUncertain(majority_verdict)
    IN  IF majority = "Supported" /\ agreement_ratio > Strong THEN "Supported"
        ELSE IF majority = "Refuted" /\ agreement_ratio > Strong THEN "Refuted"
        ELSE "Needs Review"

ComputeFinalDecision(initial_verdict, majority_verdict, agreement_ratio) ==
    LET majority == OrUncertain(majority_verdict)
        initial == OrUncertain(initial_verdict)
    IN  IF majority = "Supported" /\ agreement_ratio >= Strong THEN "Supported"
        ELSE IF majority = "Refuted" /\ agreement_ratio >= Strong THEN "Refuted"
        ELSE "Needs Review"

\* Arguments the function is applied to: every label, None, a foreign
\* label, and ratios on both sides of the cutoff (0.599, 0.5999, 0.6, ...).
VerdictArgs == Labels \cup {None, "", OtherLabel}
RatioArgs == {0, 4000, 5000, 5990, 5999, 6000, 6001, 6667, 10000}

Decide ==
    /\ decOut = None
    /\ Stage3Idle
    /\ MainIdle
    /\ Stage1Idle
    /\ decOut' = ComputeFinalDecision(decIn.initial, decIn.majority,
                                      decIn.ratio)
    /\ UNCHANGED <<s3Vars, mainVars, s1Vars, fcaVars, fileVars, rawFile, aggFile, masterFile, s2Vars, mergepc,
                   decIn>>

InitDecide ==
    /\ assertionsFile = NoRuns
    /\ resultsFile = NoRuns
    /\ strayResults = FALSE
    /\ globOrder = <<>>
    /\ evidenceFile = NoFile
    /\ rawFile = NoFile
    /\ aggFile = NoFile
    /\ masterFile = NoFile
    /\ s2pc = "idle"
    /\ num_passes = 0
    /\ p = 1
    /\ assertions = <<>>
    /\ evidence_store = <<>>
    /\ all_pass_results = <<>>
    /\ responses = <<>>
    /\ prompts = <<>>
    /\ mergepc = "idle"
    /\ decIn \in [initial : VerdictArgs, majority : VerdictArgs,
                  ratio : RatioArgs]
    /\ decOut = None
    /\ Stage3Idle
    /\ MainIdle
    /\ Stage1Idle

NextDecide == Decide

SpecDecide == InitDecide /\ [][NextDecide]_vars

-----------------------------------------------------------------------------
(* Properties of Stage 2 and of the Final Decision Policy *)

Abs(x) == IF x < 0 THEN 0 - x ELSE x

\* positions of the raw passes file that hold a sample of assertion idx
RawSamples(idx) ==
    {i \in 1..Len(rawFile.data) : rawFile.data[i]["index"] = idx}

RawLabels(idx) ==
    LET g == GroupOf(rawFile.data, idx)
    IN  [i \in 1..Len(g) |-> g[i]["final_verdict"]]

Occurrences(v, x) == Cardinality({k \in 1..Len(v) : v[k] = x})

\* two different labels share the highest frequency
TiedForFirst(v) ==
    \E i, j \in 1..Len(v) :
        /\ v[i] # v[j]
        /\ Occurrences(v, v[i]) = Occurrences(v, v[j])
        /\ \A k \in 1..Len(v) : Occurrences(v, v[k]) <= Occurrences(v, v[i])

AggRecords == Range(aggFile.data)

\* C1: whenever the samples of an assertion have no unique most frequent
\* label, the aggregate written by Stage 2 has majority_verdict Uncertain.
C1_TieResolvesToUncertain ==
    s2pc = "done" =>
        \A rec \in AggRecords :
            TiedForFirst(RawLabels(rec.index))
                => rec.majority_verdict = "Uncertain"

\* C2: _compute_final_decision returns Supported iff the majority is
\* Supported with ratio >= 0.6, Refuted iff the majority is Refuted with
\* ratio >= 0.6, and Needs Review in every other case.
C2_ThresholdRule ==
    decOut # None =>
        LET decided == 5 * decIn.ratio >= 3 * Scale
        IN  /\ decOut = "Supported"
                <=> (decIn.majority = "Supported" /\ decided)
            /\ decOut = "Refuted"
                <=> (decIn.majority = "Refuted" /\ decided)
            /\ decOut = "Needs Review"
                <=> ~ (decIn.majority \in {"Supported", "Refuted"} /\ decided)

C2_Witness ==
    /\ decOut = "Supported"
    /\ decIn.ratio = 6000
    /\ decIn.initial = "Refuted"

\* C3: agreement_ratio is the number of the assertion's samples carrying
\* the majority verdict over the number of its samples, rounded to 4
\* decimals.
C3_AgreementRatio ==
    s2pc = "done" =>
        \A rec \in AggRecords :
            LET total == Cardinality(RawSamples(rec.index))
                hits == Cardinality(
                    {i \in RawSamples(rec.index) :
                        rawFile.data[i]["final_verdict"]
                            = rec.majority_verdict})
            IN  /\ total > 0
                /\ 2 * Abs(rec.agreement_ratio * total - Scale * hits)
                       <= total

C3_Witness ==
    /\ s2pc = "done"
    /\ \E rec \in AggRecords :
          /\ rec.agreement_ratio = 6667
          /\ Cardinality(RawSamples(rec.index)) = 3

\* C4: the three per-label counts of an aggregate add up to the number of
\* samples aggregated for the assertion, whatever the oracle returned.
C4_CountsSumToTotal ==
    s2pc = "done" =>
        \A rec \in AggRecords :
            rec.num_supported + rec.num_refuted + rec.num_uncertain
                = Cardinality(RawSamples(rec.index))

\* the sequences obtained from s by exchanging two of its elements
Swaps(s) ==
    {[k \in 1..Len(s) |-> IF k = i THEN s[j] ELSE IF k = j THEN s[i] ELSE s[k]]
        : i, j \in 1..Len(s)}

\* C5: aggregating the samples of an assertion in any other order gives
\* the same AggregateRecord.
C5_OrderIndependent ==
    s2pc = "done" =>
        \A rec \in AggRecords :
            \A q \in Swaps(GroupOf(rawFile.data, rec.index)) :
                Aggregate(rec.index, q) = rec

\* passes whose response text was not JSON
FailedPasses == {q \in 1..Len(responses) : responses[q].kind = "nonjson"}

\* <<pass, position>> of the items the surviving passes returned for idx
SurvivorSamples(idx) ==
    UNION {{<<q, j>> : j \in {j \in 1..Len(responses[q].items) :
                                /\ HasKey(responses[q].items[j], "index")
                                /\ responses[q].items[j]["index"] = idx}}
           : q \in (1..Len(responses)) \ FailedPasses}

SurvivorIds ==
    UNION {{responses[q].items[j]["index"] :
              j \in {j \in 1..Len(responses[q].items) :
                        HasKey(responses[q].items[j], "index")}}
           : q \in 1..Len(responses)}

\* a response that parsed as JSON but is not an array of complete objects,
\* or an oracle call that raised
Unusable(resp) ==
    \/ resp.kind \in {"raise", "number"}
    \/ \E j \in 1..Len(resp.items) :
          \/ HasKey(resp.items[j], "scalar")
          \/ ~ HasKey(resp.items[j], "index")
          \/ ~ HasKey(resp.items[j], "final_verdict")
          \/ ~ HasKey(resp.items[j], "confidence")

\* C6: a pass whose response is not JSON never ends the stage, contributes
\* no record, and every aggregate is computed over the samples of the
\* other passes only, their number being the denominator of the ratio.
C6_FailedPassesAreSkipped ==
    /\ s2pc = "crashed" =>
          \E q \in 1..Len(responses) : Unusable(responses[q])
    /\ \A i \in 1..Len(all_pass_results) :
          all_pass_results[i]["pass_id"] \notin FailedPasses
    /\ s2pc = "done" =>
          /\ {rec.index : rec \in AggRecords} = SurvivorIds
          /\ Len(aggFile.data) = Cardinality(SurvivorIds)
          /\ \A rec \in AggRecords :
                LET mine == SurvivorSamples(rec.index)
                    total == Cardinality(mine)
                    hits == Cardinality(
                        {s \in mine :
                            responses[s[1]].items[s[2]]["final_verdict"]
                                = rec.majority_verdict})
                IN  /\ total > 0
                    /\ 2 * Abs(rec.agreement_ratio * total - Scale * hits)
                           <= total

C6_Witness ==
    /\ s2pc = "done"
    /\ num_passes = 3
    /\ Cardinality(FailedPasses) = 1
    /\ \E rec \in AggRecords :
          /\ rec.agreement_ratio = 5000
          /\ Cardinality(SurvivorSamples(rec.index)) = 2

\* C7: a response that is valid JSON of the wrong shape never makes
\* run_stage2_verification raise.
C7_SchemaMismatchNeverRaises ==
    (\A q \in 1..Len(responses) : responses[q].kind # "raise")
        => s2pc # "crashed"

\* the evidence stored on disk under an assertion id, empty if absent
StoredEvidence(idx) ==
    IF evidenceFile.exists /\ Str(idx) \in DOMAIN evidenceFile.data
    THEN evidenceFile.data[Str(idx)]["evidence_docs"]
    ELSE <<>>

\* C8: Stage 2 never modifies the assertion list or the evidence store,
\* and every prompt it sends embeds, for each assertion, exactly the
\* evidence stored under its id (none if the id is absent).
C8_EvidenceNeverDrifts ==
    [][ /\ assertionsFile' = assertionsFile
        /\ evidenceFile' = evidenceFile
        /\ s2pc # "idle" =>
              /\ assertions' = assertions
              /\ evidence_store' = evidence_store
        /\ \A q \in 1..Len(prompts') :
              /\ Len(prompts'[q]) = Len(assertionsFile[1].data)
              /\ \A i \in 1..Len(prompts'[q]) :
                    /\ prompts'[q][i]["index"]
                          = assertionsFile[1].data[i]["index"]
                    /\ prompts'[q][i]["evidence"]
                          = StoredEvidence(assertionsFile[1].data[i]["index"])
      ]_vars

C8_Witness ==
    /\ Len(prompts) = 3
    /\ \E i, j \in 1..Len(prompts[3]) :
          /\ prompts[3][i]["evidence"] = <<>>
          /\ prompts[3][j]["evidence"] # <<>>

-----------------------------------------------------------------------------
(* build_master_flagged_list.py *)

\* str.strip() over the whitespace of the model
RECURSIVE LStrip(_)
LStrip(t) == IF t # <<>> /\ Head(t) = " " THEN LStrip(Tail(t)) ELSE t

RECURSIVE RStrip(_)
RStrip(t) ==
    IF t # <<>> /\ t[Len(t)] = " " THEN RStrip(SubSeq(t, 1, Len(t) - 1))
    ELSE t

Strip(t) == RStrip(LStrip(t))

\* str.lower() over the letters of the model
UpperCase == <<"H", "O", "N", "A">>
LowerCase == <<"h", "o", "n", "a">>

LowerChar(c) ==
    IF \E i \in 1..Len(UpperCase) : UpperCase[i] = c
    THEN LowerCase[CHOOSE i \in 1..Len(UpperCase) : UpperCase[i] = c]
    ELSE c

Lower(t) == [i \in 1..Len(t) |-> LowerChar(t[i])]

\* The <N> of output/fact_check_results_run<N>.json
RunFileSuffix(r) == Str(r)
StraySuffix == "x"

\* int(suffix): the run id, or -1 for ValueError
ParseInt(suffix) ==
    IF \E i \in 0..9 : Str(i) = suffix
    THEN CHOOSE i \in 0..9 : Str(i) = suffix
    ELSE -1

\* sorted(set(ids))
RECURSIVE SortedSet(_)
SortedSet(ids) ==
    IF ids = {} THEN <<>>
    ELSE LET least == CHOOSE x \in ids : \A y \in ids : x <= y
         IN  <<least>> \o SortedSet(ids \ {least})

\* the ids in the order the files were listed, without the final sort
RECURSIVE FirstOccurrences(_)
FirstOccurrences(ids) ==
    IF ids = <<>> THEN <<>>
    ELSE LET front == FirstOccurrences(SubSeq(ids, 1, Len(ids) - 1))
             last == ids[Len(ids)]
         IN  IF last \in Range(front) THEN front ELSE Append(front, last)

\* discover_available_runs returning the ids in glob order
DiscoverAvailableRunsUnsorted(files) ==
    FirstOccurrences(
        SelectSeq([i \in 1..Len(files) |-> ParseInt(files[i])],
                  LAMBDA x : x # -1))

\* discover_available_runs, lines 42-59; files is what glob.glob returned
DiscoverAvailableRuns(files) ==
    SortedSet({ParseInt(files[i]) : i \in 1..Len(files)} \ {-1})

\* {x["index"]: x for x in list}.get(idx, {})
LookupByIndex(list, idx) ==
    LET hits == {i \in 1..Len(list) :
                    HasKey(list[i], "index") /\ list[i]["index"] = idx}
    IN  IF hits = {} THEN <<>>
        ELSE list[CHOOSE i \in hits : \A j \in hits : j <= i]

\* a or b on texts; None and "" are both the empty text
OrText(a, b) == IF a = <<>> THEN b ELSE a

\* lines 119-123
IsFlagged(initial, maj, final_decision) ==
    \/ initial \in {"Refuted", "Uncertain"}
    \/ maj = "Refuted"
    \/ final_decision = "Needs Review"

\* master_flagged[key] = rec: the dict keeps the position of a key it has
PutMaster(master, rec) ==
    LET key == Lower(rec["original_statement"])
        hits == {i \in 1..Len(master) :
                    Lower(master[i]["original_statement"]) = key}
    IN  IF hits = {} THEN Append(master, rec)
        ELSE [i \in 1..Len(master) |-> IF i \in hits THEN rec ELSE master[i]]

\* lines 98-141: the body of the loop over the rows, for one row
MergeRow(master, run_id, row, lookup, verification) ==
    LET idx == IF HasKey(row, "index") THEN row["index"] ELSE -1
        initial == Get(row, "final_verdict", "Uncertain")
        s2 == LookupByIndex(verification, idx)
        maj == Get(s2, "majority_verdict", "Uncertain")
        final_decision == Get(s2, "final_decision", None)
        original_text ==
            Strip(OrText(Get(LookupByIndex(lookup, idx),
                             "original_statement", <<>>),
                         Get(row, "assertion", <<>>)))
    IN  IF ~ HasKey(row, "index") THEN master
        ELSE IF ~ IsFlagged(initial, maj, final_decision) THEN master
        ELSE IF Lower(original_text) = <<>> THEN master
        ELSE PutMaster(master,
                [index |-> idx,
                 original_statement |-> original_text,
                 initial_verdict |-> initial,
                 stage2_majority |-> maj,
                 final_decision |-> final_decision,
                 reasoning |-> Get(row, "reasoning", ""),
                 run_id |-> run_id])

RECURSIVE MergeRows(_, _, _, _, _)
MergeRows(master, run_id, rows, lookup, verification) ==
    IF rows = <<>> THEN master
    ELSE MergeRows(MergeRow(master, run_id, Head(rows), lookup, verification),
                   run_id, Tail(rows), lookup, verification)

\* lines 89-141: the loop over the runs
RECURSIVE MergeRuns(_, _, _)
MergeRuns(master, run_ids, verification) ==
    IF run_ids = <<>> THEN master
    ELSE LET run_id == Head(run_ids)
             stage1_results == LoadJson(resultsFile[run_id], <<>>)
             lookup == LoadJson(assertionsFile[run_id], <<>>)
         IN  MergeRuns(MergeRows(master, run_id, stage1_results, lookup,
                                 verification),
                       Tail(run_ids), verification)

\* the result files in the directory, by suffix
ResultFileNames ==
    {RunFileSuffix(r) : r \in {r \in RunIds : resultsFile[r].exists}}
    \cup (IF strayResults THEN {StraySuffix} ELSE {})

\* every order in which glob.glob may list them
Orders(names) ==
    {o \in [1..Cardinality(names) -> names] :
        \A i, j \in 1..Cardinality(names) : i # j => o[i] # o[j]}

\* merge_flagged_assertions, lines 65-161
MergeFlagged(files) ==
    /\ mergepc = "idle"
    /\ globOrder' = files
    /\ IF DiscoverAvailableRuns(files) = <<>>
       THEN /\ mergepc' = "aborted"
            /\ UNCHANGED masterFile
       ELSE /\ mergepc' = "done"
            /\ masterFile' =
                  File(MergeRuns(<<>>, DiscoverAvailableRuns(files),
                                 LoadJson(aggFile, <<>>)))
    /\ UNCHANGED <<s3Vars, mainVars, s1Vars, fcaVars, assertionsFile, resultsFile, strayResults, evidenceFile,
                   rawFile, aggFile, s2Vars, decVars>>

\* Stage-1 artifacts of one run as fact_check_assertions and
\* save_run_results write them: assertion i of the list has index i - 1,
\* and its row carries the same statement.
Blank == <<" ">>

Stage1Row(i, outcome, r) ==
    [assertion |-> outcome[1],
     final_verdict |-> outcome[2],
     reasoning |-> IF r = 1 THEN "as judged in run 1" ELSE "as judged in run 2",
     confidence |-> 9000,
     run_id |-> r,
     pass_id |-> 1,
     index |-> i - 1]

\* <<statement, Stage-1 verdict>> of one assertion
Outcomes ==
    ({Text1, Text2} \X {"Supported", "Refuted"})
    \cup {<<Text3, "Supported">>, <<Text3, "Uncertain">>,
          <<Blank, "Refuted">>}

ResultsOf(outcomes, r) ==
    File([i \in 1..Len(outcomes) |-> Stage1Row(i, outcomes[i], r)])

AssertionsOf(outcomes) ==
    File([i \in 1..Len(outcomes) |-> Assertion(i - 1, outcomes[i][1])])

\* all_pass_results after the passes answered resps, in pass order
RECURSIVE RawFrom(_)
RawFrom(resps) ==
    IF resps = <<>> THEN <<>>
    ELSE RawFrom(SubSeq(resps, 1, Len(resps) - 1))
            \o PassRecords(resps[Len(resps)], Len(resps))

One(i, l, c) == ArrayResponse(<<Item(i, l, c)>>)

\* Stage-2 runs over run 1 that may have left their two files on disk
Stage2Runs ==
    { <<One(0, "Supported", 9000), One(0, "Supported", 9000),
        One(0, "Supported", 5000)>>,
      <<One(0, "Refuted", 9000), NonJsonResponse, One(0, "Refuted", 9000)>>,
      <<One(0, "Uncertain", 5000), One(0, "Uncertain", 5000),
        One(0, "Supported", 5000)>>,
      <<One(0, "Supported", 9000), One(0, "Refuted", 9000),
        One(0, "Supported", 9000), One(0, "Uncertain", 9000),
        One(0, "Refuted", 5000)>>,
      <<ArrayResponse(<<Item(0, "Supported", 9000),
                        Item(1, "Refuted", 5000)>>),
        ArrayResponse(<<Item(0, "Supported", 9000),
                        Item(1, "Refuted", 5000)>>)>> }

InitFlag ==
    /\ \E o1 \in UNION {[1..n -> Outcomes] : n \in 1..MaxRows} :
       \E o2 \in {<<>>} \cup [1..1 -> Outcomes \ {<<Blank, "Refuted">>}] :
          /\ resultsFile =
                [r \in RunIds |->
                    IF r = 1 THEN ResultsOf(o1, 1)
                    ELSE IF o2 = <<>> THEN NoFile ELSE ResultsOf(o2, 2)]
          /\ assertionsFile =
                [r \in RunIds |->
                    IF r = 1 THEN AssertionsOf(o1)
                    ELSE IF o2 = <<>> THEN NoFile ELSE AssertionsOf(o2)]
    /\ strayResults \in BOOLEAN
    /\ globOrder = <<>>
    /\ evidenceFile = File(Store01)
    /\ \/ rawFile = NoFile /\ aggFile = NoFile
       \/ \E run \in Stage2Runs :
             /\ rawFile = File(RawFrom(run))
             /\ aggFile = File(AggregateAll(RawFrom(run)))
    /\ masterFile = NoFile
    /\ s2pc = "idle"
    /\ num_passes = 0
    /\ p = 1
    /\ assertions = <<>>
    /\ evidence_store = <<>>
    /\ all_pass_results = <<>>
    /\ responses = <<>>
    /\ prompts = <<>>
    /\ mergepc = "idle"
    /\ decIn = NoDecision
    /\ decOut = None
    /\ Stage3Idle
    /\ MainIdle
    /\ Stage1Idle

NextFlag == \E files \in Orders(ResultFileNames) : MergeFlagged(files)

SpecFlag == InitFlag /\ [][NextFlag]_vars

-----------------------------------------------------------------------------
(* Properties of the master flagged list *)

DiscoveredRuns == {r \in RunIds : resultsFile[r].exists}

\* <<run, position>> of every Stage-1 row on disk
Stage1Rows ==
    UNION {{<<r, i>> : i \in 1..Len(resultsFile[r].data)}
           : r \in DiscoveredRuns}

RowAt(ri) == resultsFile[ri[1]].data[ri[2]]

\* normalized text of a row: trimmed, lower case
KeyOf(ri) == Lower(Strip(RowAt(ri)["assertion"]))

Keys == {KeyOf(ri) : ri \in Stage1Rows} \ {<<>>}

MasterAt(k) ==
    {n \in 1..Len(masterFile.data) :
        Lower(Strip(masterFile.data[n]["original_statement"])) = k}

AggFor(idx) == {rec \in AggRecords : rec.index = idx}

RefutedByStage2(idx) ==
    \E rec \in AggFor(idx) : rec.majority_verdict = "Refuted"

\* the flagging rule of the module docstring; the final decision is the
\* policy's result for the assertion's Stage-2 aggregate, which exists for
\* the assertions of run 1 (the run Stage 2 verifies)
FlaggedByRule(ri) ==
    \/ RowAt(ri)["final_verdict"] \in {"Refuted", "Uncertain"}
    \/ RefutedByStage2(RowAt(ri)["index"])
    \/ \E rec \in AggFor(RowAt(ri)["index"]) :
          ri[1] = 1 /\
          ComputeFinalDecision(RowAt(ri)["final_verdict"],
                               rec.majority_verdict, rec.agreement_ratio)
              = "Needs Review"

\* C9: after the merge an assertion with non-empty text is in the master
\* flagged list iff its initial verdict is Refuted or Uncertain, or its
\* Stage-2 majority is Refuted, or its final decision is Needs Review.
C9_FlaggedIffRule ==
    mergepc = "done" =>
        \A k \in Keys :
            (MasterAt(k) # {})
                <=> (\E ri \in Stage1Rows : KeyOf(ri) = k /\ FlaggedByRule(ri))

\* the master record at position n carries the fields of row ri
FieldsFrom(n, ri) ==
    /\ masterFile.data[n]["run_id"] = ri[1]
    /\ masterFile.data[n]["index"] = RowAt(ri)["index"]
    /\ masterFile.data[n]["initial_verdict"] = RowAt(ri)["final_verdict"]
    /\ masterFile.data[n]["reasoning"] = RowAt(ri)["reasoning"]

\* C10 as claimed: a text found in two runs has a single master record,
\* and that record has the fields of the run with the larger id.
C10_LargerRunWins ==
    mergepc = "done" =>
        \A a, b \in Stage1Rows :
            (a[1] < b[1] /\ KeyOf(a) = KeyOf(b) /\ MasterAt(KeyOf(b)) # {})
                => /\ Cardinality(MasterAt(KeyOf(b))) = 1
                   /\ \A n \in MasterAt(KeyOf(b)) : FieldsFrom(n, b)

\* the row is one for which merge_flagged_assertions writes a record
WritesRecord(ri) ==
    \/ RowAt(ri)["final_verdict"] \in {"Refuted", "Uncertain"}
    \/ RefutedByStage2(RowAt(ri)["index"])
    \/ \E rec \in AggFor(RowAt(ri)["index"]) :
          HasKey(rec, "final_decision")
              /\ rec["final_decision"] = "Needs Review"

Writers(k) == {ri \in Stage1Rows : KeyOf(ri) = k /\ WritesRecord(ri)}

\* the writer of the largest run id, and within it the last row
LastWriter(k) ==
    CHOOSE ri \in Writers(k) :
        \A other \in Writers(k) :
            \/ other[1] < ri[1]
            \/ other[1] = ri[1] /\ other[2] <= ri[2]

\* C10 as amended: the list holds at most one record per normalized text;
\* it holds one exactly when some run flags the text, and the record then
\* carries the fields of the largest run id that flags it, whatever the
\* order in which the run files are listed.
C10_LargestFlaggingRunWins ==
    mergepc = "done" =>
        \A k \in Keys :
            IF Writers(k) = {} THEN MasterAt(k) = {}
            ELSE /\ Cardinality(MasterAt(k)) = 1
                 /\ \A n \in MasterAt(k) : FieldsFrom(n, LastWriter(k))

C10_Witness ==
    /\ mergepc = "done"
    /\ Len(globOrder) >= 2
    /\ \E i, j \in 1..Len(globOrder) :
          i < j /\ globOrder[i] = RunFileSuffix(2)
                /\ globOrder[j] = RunFileSuffix(1)
    /\ \E k \in Keys :
          /\ \E a, b \in Writers(k) : a[1] = 1 /\ b[1] = 2
          /\ \A n \in MasterAt(k) : masterFile.data[n]["run_id"] = 2
          /\ MasterAt(k) # {}

(***************************************************************************)
(* Stage 3: generate_final_summary.py                                      *)
(***************************************************************************)

\* _load_json(path, list): a missing file gives list(); the three files
\* Stage 3 reads are written by json.dumps of a list, so the isinstance
\* test of line 38 passes whenever the file exists
LoadJsonList(file) == IF file.exists THEN file.data ELSE <<>>

\* the keys of {r["index"]: r for r in list}
IndexKeys(list) == {list[i]["index"] : i \in 1..Len(list)}

\* one FinalRecord that stores `initial_verdict or "Uncertain"`
FinalRecordNormalized(idx, a, s1, s2) ==
    LET initial_verdict == Get(s1, "final_verdict", "Uncertain")
        majority == Get(s2, "majority_verdict", "Uncertain")
        agreement == Get(s2, "agreement_ratio", 0)
    IN  [index |-> idx,
         assertion |-> OrText(OrText(Get(a, "original_statement", <<>>),
                                     Get(s1, "assertion", <<>>)), <<>>),
         initial_verdict |-> OrUncertain(initial_verdict),
         initial_confidence |-> Get(s1, "confidence", 0),
         majority_verdict |-> majority,
         agreement_ratio |-> agreement,
         mean_confidence |-> Get(s2, "mean_confidence", 0),
         num_supported |-> Get(s2, "num_supported", 0),
         num_refuted |-> Get(s2, "num_refuted", 0),
         num_uncertain |-> Get(s2, "num_uncertain", 0),
         final_decision |->
            ComputeFinalDecision(initial_verdict, majority, agreement)]

\* lines 95-133: the record of one index; a, s1 and s2 are the rows found
\* for it, {} when there is none
FinalRecord(idx, a, s1, s2) ==
    LET initial_verdict == Get(s1, "final_verdict", "Uncertain")
        majority == Get(s2, "majority_verdict", "Uncertain")
        agreement == Get(s2, "agreement_ratio", 0)
    IN  [index |-> idx,
         assertion |-> OrText(OrText(Get(a, "original_statement", <<>>),
                                     Get(s1, "assertion", <<>>)), <<>>),
         initial_verdict |-> initial_verdict,
         initial_confidence |-> Get(s1, "confidence", 0),
         majority_verdict |-> majority,
         agreement_ratio |-> agreement,
         mean_confidence |-> Get(s2, "mean_confidence", 0),
         num_supported |-> Get(s2, "num_supported", 0),
         num_refuted |-> Get(s2, "num_refuted", 0),
         num_uncertain |-> Get(s2, "num_uncertain", 0),
         final_decision |->
            ComputeFinalDecision(initial_verdict, majority, agreement)]

\* lines 86-135: final_records, in the order of sorted(a_by_idx.keys())
FinalRecords(a_list, s1_list, s2_list) ==
    LET all_indices == SortedSet(IndexKeys(a_list))
    IN  [n \in 1..Len(all_indices) |->
            FinalRecord(all_indices[n],
                        LookupByIndex(a_list, all_indices[n]),
                        LookupByIndex(s1_list, all_indices[n]),
                        LookupByIndex(s2_list, all_indices[n]))]

\* a summary that counts the Stage-2 majority verdicts as decisions
SummaryOfMajorities(final_records) ==
    LET decisions == [i \in 1..Len(final_records) |->
                         final_records[i]["majority_verdict"]]
    IN  [total |-> Len(final_records),
         supported |-> CountOf(decisions, "Supported"),
         refuted |-> CountOf(decisions, "Refuted"),
         needs_review |-> CountOf(decisions, "Needs Review")]

\* lines 166-178: the numbers final_summary.txt reports
SummaryOf(final_records) ==
    LET decisions == [i \in 1..Len(final_records) |->
                         final_records[i]["final_decision"]]
    IN  [total |-> Len(final_records),
         supported |-> CountOf(decisions, "Supported"),
         refuted |-> CountOf(decisions, "Refuted"),
         needs_review |-> CountOf(decisions, "Needs Review")]

\* generate_final_summary(), lines 71-192
GenerateFinalSummary ==
    /\ s3pc = "idle"
    /\ LET a_list == LoadJsonList(assertionsFile[1])
           s1_list == LoadJsonList(resultsFile[1])
           s2_list == LoadJsonList(aggFile)
           final_records == FinalRecords(a_list, s1_list, s2_list)
       IN  IF Falsy(a_list) \/ Falsy(s1_list) \/ Falsy(s2_list)
           THEN /\ s3pc' = "aborted"
                /\ UNCHANGED <<finalFile, summaryFile>>
           ELSE IF Falsy(final_records)
           THEN /\ s3pc' = "aborted"
                /\ UNCHANGED <<finalFile, summaryFile>>
           ELSE /\ finalFile' = File(final_records)
                /\ summaryFile' = File(SummaryOf(final_records))
                /\ s3pc' = "done"
    /\ UNCHANGED <<fileVars, rawFile, aggFile, masterFile, s2Vars, mergepc,
                   decVars, mainVars, s1Vars, fcaVars>>

\* a Stage-1 verdict the oracle left null
Outcomes3 == Outcomes \cup {<<Text3, None>>}

\* a Stage-2 run in which every pass failed to parse
AllPassesFailed == <<NonJsonResponse, NonJsonResponse>>

\* what earlier stages may have left in the output directory
InitFinal ==
    /\ \E o1 \in UNION {[1..n -> Outcomes3] : n \in 1..MaxRows} :
       \E missing \in {"none", "assertions", "results", "lastrow"} :
          /\ assertionsFile =
                [r \in RunIds |->
                    IF r = 1 /\ missing # "assertions"
                    THEN AssertionsOf(o1) ELSE NoFile]
          /\ resultsFile =
                [r \in RunIds |->
                    IF r # 1 \/ missing = "results" THEN NoFile
                    ELSE IF missing = "lastrow"
                    THEN ResultsOf(SubSeq(o1, 1, Len(o1) - 1), 1)
                    ELSE ResultsOf(o1, 1)]
    /\ strayResults = FALSE
    /\ globOrder = <<>>
    /\ evidenceFile = File(Store01)
    /\ \/ rawFile = NoFile /\ aggFile = NoFile
       \/ \E run \in Stage2Runs \cup {AllPassesFailed} :
             /\ rawFile = File(RawFrom(run))
             /\ aggFile = File(AggregateAll(RawFrom(run)))
    /\ masterFile = NoFile
    /\ s2pc = "idle"
    /\ num_passes = 0
    /\ p = 1
    /\ assertions = <<>>
    /\ evidence_store = <<>>
    /\ all_pass_results = <<>>
    /\ responses = <<>>
    /\ prompts = <<>>
    /\ mergepc = "idle"
    /\ decIn = NoDecision
    /\ decOut = None
    /\ Stage3Idle
    /\ MainIdle
    /\ Stage1Idle

NextFinal == GenerateFinalSummary

SpecFinal == InitFinal /\ [][NextFinal]_vars

(***************************************************************************)
(* Properties of Stage 3                                                   *)
(***************************************************************************)

\* the indices of the assertions file, as Stage 3 reads it
AssertionIds == IndexKeys(LoadJsonList(assertionsFile[1]))

\* the Stage-1 artifacts of run 1 are both on disk and hold rows
Stage1ArtifactsExist ==
    /\ ~ Falsy(LoadJsonList(assertionsFile[1]))
    /\ ~ Falsy(LoadJsonList(resultsFile[1]))

\* the positions of final_results.json that hold index idx
FinalAt(idx) ==
    IF finalFile.exists
    THEN {n \in 1..Len(finalFile.data) : finalFile.data[n]["index"] = idx}
    ELSE {}

HasAggregate(idx) == LookupByIndex(LoadJsonList(aggFile), idx) # <<>>

\* C11: once Stage 3 has run over existing Stage-1 artifacts and the
\* aggregate file Stage 2 wrote, final_results.json holds exactly one
\* FinalRecord for every assertion of the assertions file, and an assertion
\* without an AggregateRecord has majority Uncertain, agreement 0 and final
\* decision Needs Review.
C11_OneFinalRecordPerAssertion ==
    (s3pc # "idle" /\ Stage1ArtifactsExist /\ aggFile.exists) =>
        \A idx \in AssertionIds :
            /\ Cardinality(FinalAt(idx)) = 1
            /\ ~ HasAggregate(idx) =>
                  \A n \in FinalAt(idx) :
                     /\ finalFile.data[n]["majority_verdict"] = "Uncertain"
                     /\ finalFile.data[n]["agreement_ratio"] = 0
                     /\ finalFile.data[n]["final_decision"] = "Needs Review"

\* the Stage-1 row Stage 3 finds for idx
Stage1RowFor(idx) == LookupByIndex(LoadJsonList(resultsFile[1]), idx)

\* C20: the final decision of every FinalRecord is what
\* _compute_final_decision returns for its majority and agreement ratio
\* under every initial verdict, None included, and the record carries the
\* Stage-1 verdict as Stage 1 stored it.
C20_InitialVerdictIsIgnored ==
    s3pc = "done" =>
        \A n \in 1..Len(finalFile.data) :
            LET rec == finalFile.data[n]
            IN  /\ \A i2 \in VerdictArgs :
                      rec["final_decision"] =
                         ComputeFinalDecision(i2, rec["majority_verdict"],
                                              rec["agreement_ratio"])
                /\ HasKey(Stage1RowFor(rec["index"]), "final_verdict") =>
                      rec["initial_verdict"] =
                         Stage1RowFor(rec["index"])["final_verdict"]

\* Stage 1 refuted one assertion and left the verdict of another null;
\* Stage 2 supported the first and refuted the second, and each FinalRecord
\* follows Stage 2 while keeping the Stage-1 verdict
C20_Witness ==
    /\ s3pc = "done"
    /\ \E n, m \in 1..Len(finalFile.data) :
          /\ finalFile.data[n]["initial_verdict"] = "Refuted"
          /\ finalFile.data[n]["final_decision"] = "Supported"
          /\ finalFile.data[m]["initial_verdict"] = None
          /\ finalFile.data[m]["final_decision"] = "Refuted"

(***************************************************************************)
(* Further properties of Stage 2                                           *)
(***************************************************************************)

\* the positions of verification_aggregated.json that hold index idx
AggAt(idx) ==
    {n \in 1..Len(aggFile.data) : aggFile.data[n]["index"] = idx}

\* the ids of the assertions Stage 2 loaded
LoadedIds == {assertions[i]["index"] : i \in 1..Len(assertions)}

\* C18: when Stage 2 has written its aggregate, an id has an AggregateRecord
\* exactly when a surviving pass returned a verdict for it, and then exactly
\* one; so no record stands for an empty sample set, and an id with fewer
\* samples than passes has its record.
C18_AggregateIffSampled ==
    s2pc = "done" =>
        \A idx \in LoadedIds \cup SurvivorIds
                      \cup {aggFile.data[n]["index"] :
                               n \in 1..Len(aggFile.data)} :
            /\ AggAt(idx) # {} <=> SurvivorSamples(idx) # {}
            /\ Cardinality(AggAt(idx)) <= 1

\* three passes, one of which failed: an assertion with two samples has its
\* record and a loaded assertion that no pass judged has none
C18_Witness ==
    /\ s2pc = "done"
    /\ num_passes = 3
    /\ Cardinality(FailedPasses) = 1
    /\ \A q \in 1..Len(responses) : Len(responses[q].items) <= 1
    /\ \E a, b \in LoadedIds :
          /\ Cardinality(SurvivorSamples(a)) = 2
          /\ AggAt(a) # {}
          /\ SurvivorSamples(b) = {}
          /\ AggAt(b) = {}

\* C19: the raw passes list never holds two records with the same
\* assertion id and pass_id, so no assertion has more samples than passes
\* were run.
C19_OneRecordPerAssertionAndPass ==
    /\ \A i, j \in 1..Len(all_pass_results) :
          (/\ i # j
           /\ HasKey(all_pass_results[i], "index")
           /\ HasKey(all_pass_results[j], "index")
           /\ all_pass_results[i]["index"] = all_pass_results[j]["index"])
             => all_pass_results[i]["pass_id"] # all_pass_results[j]["pass_id"]
    /\ s2pc = "done" =>
          \A idx \in SurvivorIds :
              Cardinality(RawSamples(idx)) <= num_passes

(***************************************************************************)
(* Stage 1: scientific_fact_checker.py extract_assertions and              *)
(* run_stage1.py                                                           *)
(***************************************************************************)

\* range(3) at line 98
MaxAttempts == 3

\* JSON values an item may hold under a statement key
JStr(t) == [type |-> "str", text |-> t]
JNumber == [type |-> "number", text |-> <<>>]
JNull == [type |-> "null", text |-> <<>>]

\* bool(v): null and "" are falsy, a non-empty string and 5 are truthy
Truthy(v) == (v.type = "str" /\ v.text # <<>>) \/ v.type = "number"

\* line 114: item.get("original_statement") or item.get("statement")
StmtOf(item) ==
    IF Truthy(Get(item, "original_statement", JNull))
    THEN item["original_statement"]
    ELSE Get(item, "statement", JNull)

\* lines 113-121 raise on an item: .get on a value that is not an object,
\* .strip on a statement that is not a string
ItemRaises(item) ==
    \/ ~ IsObject(item)
    \/ Truthy(StmtOf(item)) /\ StmtOf(item).type # "str"

\* extract_assertions that takes any parsed JSON for an empty list
ExtractFailsOnTextOnly(resp) == resp.kind \in {"raise", "nonjson"}

\* lines 99-124: does the attempt end in the except branch
ExtractFails(resp) ==
    \/ resp.kind \in {"raise", "nonjson"}
    \/ resp.kind # "array"
    \/ \E i \in 1..Len(resp.items) : ItemRaises(resp.items[i])

\* lines 112-121: the assertion built from item number i (0-based)
ExtractedAssertion(i, item) ==
    [index |-> i,
     original_statement |-> Strip(StmtOf(item).text),
     section |-> Get(item, "section", None),
     sentence_number |-> Get(item, "sentence_number", i)]

\* lines 112-124: the list returned for a response that did not fail
RECURSIVE ExtractList(_)
ExtractList(items) ==
    IF items = <<>> THEN <<>>
    ELSE LET front == ExtractList(SubSeq(items, 1, Len(items) - 1))
             item == items[Len(items)]
         IN  IF IsObject(item) /\ Truthy(StmtOf(item))
             THEN Append(front, ExtractedAssertion(Len(items) - 1, item))
             ELSE front

\* items the extraction oracle may put in its list
ExtractItems ==
    { [original_statement |-> JStr(Text2)],
      [statement |-> JStr(Text3), section |-> "Intro"],
      [original_statement |-> JStr(<<>>), statement |-> JStr(Text1)],
      [section |-> "Intro"],
      [original_statement |-> JNumber],
      NotObjectItem }

ExtractResponses ==
    {RaiseResponse, NonJsonResponse, NumberResponse,
     ObjectResponse(<<"assertions">>), ArrayResponse(<<>>)}
    \cup {ArrayResponse(<<it>>) : it \in ExtractItems}
    \cup {ArrayResponse(<<[section |-> "Intro"],
                          [original_statement |-> JStr(Text2)]>>),
          ArrayResponse(<<[original_statement |-> JStr(Text1)],
                          NotObjectItem>>)}

\* the keyword arguments fact_check_assertions accepts (line 210) and the
\* ones run_stage1 passes (lines 79-83)
FactCheckAssertionsParams == {"assertions", "run_id"}
RunStage1Keywords == {"run_id", "pass_id"}

\* a call with a keyword the function does not declare raises TypeError
CallRaises(keywords, params) == ~ (keywords \subseteq params)

\* run_stage1, lines 44-66: up to the call of extract_assertions
S1Start ==
    /\ s1pc = "idle"
    /\ s1pc' = IF chapter \in {"missing", "empty"} THEN "aborted"
               ELSE "extract"
    /\ attempt' = 0
    /\ extractResponses' = <<>>
    /\ extracted' = <<>>
    /\ UNCHANGED <<fileVars, rawFile, aggFile, masterFile, s2Vars, mergepc,
                   decVars, s3Vars, mainVars, fcaVars>>

\* extract_assertions, lines 98-132: one turn of the loop, resp being what
\* the oracle does; after the last failed attempt the function returns []
ExtractAttempt(resp) ==
    /\ s1pc = "extract"
    /\ attempt < MaxAttempts
    /\ attempt' = attempt + 1
    /\ extractResponses' = Append(extractResponses, resp)
    /\ IF ~ ExtractFails(resp)
       THEN /\ extracted' = ExtractList(resp.items)
            /\ s1pc' = "extracted"
       ELSE /\ extracted' = <<>>
            /\ s1pc' = IF attempt + 1 = MaxAttempts THEN "extracted"
                       ELSE "extract"
    /\ UNCHANGED <<fileVars, rawFile, aggFile, masterFile, s2Vars, mergepc,
                   decVars, s3Vars, mainVars, fcaVars>>

\* run_stage1, lines 69-83: the check of the extracted list and the call of
\* fact_check_assertions
S1FactCheck ==
    /\ s1pc = "extracted"
    /\ s1pc' = IF Falsy(extracted) THEN "aborted"
               ELSE IF CallRaises(RunStage1Keywords, FactCheckAssertionsParams)
               THEN "crashed"
               ELSE "checking"
    /\ UNCHANGED <<fileVars, rawFile, aggFile, masterFile, s2Vars, mergepc,
                   decVars, s3Vars, mainVars, fcaVars, attempt,
                   extractResponses, extracted>>

Chapters == {"missing", "empty", "text"}

\* run_stage1 called on a chapter, nothing on disk
InitStage1 ==
    /\ assertionsFile = NoRuns
    /\ resultsFile = NoRuns
    /\ strayResults = FALSE
    /\ globOrder = <<>>
    /\ evidenceFile = NoFile
    /\ rawFile = NoFile
    /\ aggFile = NoFile
    /\ masterFile = NoFile
    /\ s2pc = "idle"
    /\ num_passes = 0
    /\ p = 1
    /\ assertions = <<>>
    /\ evidence_store = <<>>
    /\ all_pass_results = <<>>
    /\ responses = <<>>
    /\ prompts = <<>>
    /\ mergepc = "idle"
    /\ decIn = NoDecision
    /\ decOut = None
    /\ Stage3Idle
    /\ mainpc = "idle"
    /\ chapter \in Chapters
    /\ Stage1Idle

NextStage1 ==
    \/ S1Start
    \/ \E resp \in ExtractResponses : ExtractAttempt(resp)
    \/ S1FactCheck

SpecStage1 == InitStage1 /\ [][NextStage1]_vars

(***************************************************************************)
(* Properties of extract_assertions                                        *)
(***************************************************************************)

\* extract_assertions has returned
ExtractionOver == s1pc \in {"extracted", "aborted", "crashed", "checking"}

LastResponse == extractResponses[Len(extractResponses)]

\* C17 as stated: at most 3 oracle calls are made, none of them after a
\* response that is a JSON list, the list parsed from such a response is
\* what is returned, and after 3 failures [] is returned.
C17_ReturnsAtFirstJsonList ==
    /\ Len(extractResponses) <= 3
    /\ \A k \in 1..Len(extractResponses) :
          extractResponses[k].kind = "array" => k = Len(extractResponses)
    /\ (ExtractionOver /\ extractResponses # <<>>) =>
          \/ LastResponse.kind = "array"
          \/ Len(extractResponses) = 3 /\ extracted = <<>>

\* a JSON list whose items are all objects and whose statements, where
\* present, are strings
UsableList(resp) ==
    /\ resp.kind = "array"
    /\ \A i \in 1..Len(resp.items) :
          /\ ~ HasKey(resp.items[i], "scalar")
          /\ LET os == Get(resp.items[i], "original_statement", JNull)
                 st == Get(resp.items[i], "statement", JNull)
             IN  /\ os.type \in {"str", "null"}
                 /\ os.type = "null" \/ os.text = <<>>
                       => st.type \in {"str", "null"}

\* the items of a usable list that carry a non-empty statement
StatedItems(resp) ==
    {i \in 1..Len(resp.items) :
        \/ Get(resp.items[i], "original_statement", JNull).text # <<>>
        \/ Get(resp.items[i], "statement", JNull).text # <<>>}

\* C17 as amended: at most 3 oracle calls are made, every call but the last
\* got a response that is not a usable list, and the function returns at
\* the first usable list with one assertion per stated item, indexed by the
\* item's position, or [] after 3 responses none of which is usable.
C17_ReturnsAtFirstUsableList ==
    /\ Len(extractResponses) <= 3
    /\ attempt = Len(extractResponses)
    /\ \A k \in 1..(Len(extractResponses) - 1) :
          ~ UsableList(extractResponses[k])
    /\ s1pc = "extract" =>
          /\ Len(extractResponses) < 3
          /\ \A k \in 1..Len(extractResponses) :
                ~ UsableList(extractResponses[k])
    /\ (ExtractionOver /\ extractResponses # <<>>) =>
          IF UsableList(LastResponse)
          THEN /\ Len(extracted) = Cardinality(StatedItems(LastResponse))
               /\ \A n \in 1..Len(extracted) :
                     /\ extracted[n]["index"] + 1 \in StatedItems(LastResponse)
                     /\ \A m \in 1..(n - 1) :
                           extracted[m]["index"] < extracted[n]["index"]
          ELSE Len(extractResponses) = 3 /\ extracted = <<>>

\* a list holding a non-object was answered first and the oracle was asked
\* again, and the second answer was returned
C17_Witness ==
    /\ s1pc = "extracted"
    /\ Len(extractResponses) = 2
    /\ extractResponses[1].kind = "array"
    /\ extracted # <<>>

(***************************************************************************)
(* scientific_fact_checker.py: fact_check_single_pass and                  *)
(* fact_check_assertions                                                   *)
(***************************************************************************)

\* JSON values the oracle may put under "confidence"
CNum(v) == [type |-> "number", value |-> v, text |-> <<>>]
CStr(t) == [type |-> "str", value |-> 0, text |-> t]
CNull == [type |-> "null", value |-> 0, text |-> <<>>]

IsDigit(c) == \E i \in 0..9 : Str(i) = c

\* the number a string of digits denotes
RECURSIVE DigitsValue(_)
DigitsValue(t) ==
    IF t = <<>> THEN 0
    ELSE 10 * DigitsValue(SubSeq(t, 1, Len(t) - 1)) + ParseInt(t[Len(t)])

RECURSIVE Pow10(_)
Pow10(n) == IF n = 0 THEN 1 ELSE 10 * Pow10(n - 1)

\* position of the decimal point, Len(t) + 1 when there is none
DotAt(t) ==
    IF \E i \in 1..Len(t) : t[i] = "."
    THEN CHOOSE i \in 1..Len(t) : t[i] = "."
    ELSE Len(t) + 1

\* float(str) on plain decimals of at most four places: does it parse
IsFloatText(t) ==
    /\ \A i \in 1..Len(t) : IsDigit(t[i]) \/ t[i] = "."
    /\ Cardinality({i \in 1..Len(t) : t[i] = "."}) <= 1
    /\ \E i \in 1..Len(t) : IsDigit(t[i])
    /\ Len(t) - DotAt(t) <= 4

\* and its value, in 1/10000
ParseFloat(t) ==
    LET whole == SubSeq(t, 1, DotAt(t) - 1)
        frac == SubSeq(t, DotAt(t) + 1, Len(t))
    IN  DigitsValue(whole) * Scale
            + DigitsValue(frac) * (Scale \div Pow10(Len(frac)))

\* float(v) raises TypeError on null and ValueError on a string that is
\* not a number
FloatRaises(c) ==
    \/ c.type = "null"
    \/ c.type = "str" /\ ~ IsFloatText(c.text)

FloatOf(c) == IF c.type = "number" THEN c.value ELSE ParseFloat(c.text)

\* a response whose text is a JSON object
JudgeResponse(data) == [kind |-> "object", items |-> <<>>, data |-> data]

\* lines 178-205: does fact_check_single_pass end in an exception: the
\* oracle call is outside the try, .get fails on JSON that is not an
\* object, float fails on a confidence that is not a number
SinglePassRaises(resp) ==
    \/ resp.kind = "raise"
    \/ resp.kind \in {"array", "number"}
    \/ resp.kind = "object"
          /\ FloatRaises(Get(resp.data, "confidence", CNum(0)))

\* lines 186-205: the record fact_check_single_pass returns
SinglePass(assertion, resp, run_id, pass_id) ==
    IF resp.kind = "nonjson"
    THEN [assertion |-> assertion,
          final_verdict |-> "Uncertain",
          reasoning |-> "response.text",
          confidence |-> 0,
          run_id |-> run_id,
          pass_id |-> pass_id]
    ELSE [assertion |-> assertion,
          final_verdict |-> Get(resp.data, "final_verdict", "Uncertain"),
          reasoning |-> Get(resp.data, "reasoning", ""),
          confidence |-> FloatOf(Get(resp.data, "confidence", CNum(0))),
          run_id |-> run_id,
          pass_id |-> pass_id]

\* what the oracle may do when asked to judge one assertion
JudgeResponses ==
    {RaiseResponse, NonJsonResponse, NumberResponse, ArrayResponse(<<>>),
     JudgeResponse([final_verdict |-> "Supported", confidence |-> CNum(9000),
                    reasoning |-> "because"]),
     JudgeResponse([final_verdict |-> "Refuted",
                    confidence |-> CStr(<<"0", ".", "9">>)]),
     JudgeResponse([final_verdict |-> None, confidence |-> CNum(5000)]),
     JudgeResponse([reasoning |-> "because"]),
     JudgeResponse([final_verdict |-> "Supported",
                    confidence |-> CStr(<<"h", "i", "g", "h">>)]),
     JudgeResponse([final_verdict |-> "Supported", confidence |-> CNull])}

\* what _retrieve_evidence_for_assertion may return
EvidenceLists == {<<>>, <<"pubmed-a", "local-b">>}

\* fact_check_assertions, lines 211-212
FcaStart(list) ==
    /\ fcapc = "idle"
    /\ fcaArg' = list
    /\ fcaResults' = <<>>
    /\ self_evidence' = <<>>
    /\ fcaCalls' = <<>>
    /\ fcapc' = IF list = <<>> THEN "save" ELSE "loop"
    /\ UNCHANGED <<fileVars, rawFile, aggFile, masterFile, s2Vars, mergepc,
                   decVars, s3Vars, mainVars, s1Vars>>

\* lines 214-228: one turn of the loop, evidence being what retrieval
\* returns and resp what the oracle does
FcaItem(evidence, resp) ==
    /\ fcapc = "loop"
    /\ LET item == fcaArg[Len(fcaResults) + 1]
           idx == item["index"]
           stmt == item["original_statement"]
       IN  /\ self_evidence' =
                 SetKey(self_evidence, Str(idx), EvidenceEntry(stmt, evidence))
           /\ fcaCalls' = Append(fcaCalls, resp)
           /\ IF SinglePassRaises(resp)
              THEN /\ fcapc' = "crashed"
                   /\ UNCHANGED fcaResults
              ELSE /\ fcaResults' =
                         Append(fcaResults,
                                SetKey(SinglePass(stmt, resp, 1, 1),
                                       "index", idx))
                   /\ fcapc' = IF Len(fcaResults) + 1 = Len(fcaArg)
                               THEN "save" ELSE "loop"
    /\ UNCHANGED <<fileVars, rawFile, aggFile, masterFile, s2Vars, mergepc,
                   decVars, s3Vars, mainVars, s1Vars, fcaArg>>

\* lines 230-235: _save_evidence_store and the return
FcaSave ==
    /\ fcapc = "save"
    /\ evidenceFile' = File(self_evidence)
    /\ fcapc' = "done"
    /\ UNCHANGED <<assertionsFile, resultsFile, strayResults, globOrder,
                   rawFile, aggFile, masterFile, s2Vars, mergepc, decVars,
                   s3Vars, mainVars, s1Vars, fcaArg, fcaResults,
                   self_evidence, fcaCalls>>

\* the assertion lists extract_assertions may have returned
CheckerInputs ==
    UNION {{[i \in 1..n |-> Assertion(i - 1, t[i])] :
               t \in [1..n -> {Text1, Text3}]} : n \in 1..MaxRows}

\* a checker was constructed and fact_check_assertions is about to be called
InitChecker ==
    /\ assertionsFile = NoRuns
    /\ resultsFile = NoRuns
    /\ strayResults = FALSE
    /\ globOrder = <<>>
    /\ evidenceFile = NoFile
    /\ rawFile = NoFile
    /\ aggFile = NoFile
    /\ masterFile = NoFile
    /\ s2pc = "idle"
    /\ num_passes = 0
    /\ p = 1
    /\ assertions = <<>>
    /\ evidence_store = <<>>
    /\ all_pass_results = <<>>
    /\ responses = <<>>
    /\ prompts = <<>>
    /\ mergepc = "idle"
    /\ decIn = NoDecision
    /\ decOut = None
    /\ Stage3Idle
    /\ MainIdle
    /\ Stage1Idle

NextChecker ==
    \/ \E list \in CheckerInputs : FcaStart(list)
    \/ \E evidence \in EvidenceLists, resp \in JudgeResponses :
          FcaItem(evidence, resp)
    \/ FcaSave

SpecChecker == InitChecker /\ [][NextChecker]_vars

(***************************************************************************)
(* Properties of the single-pass fact checker                              *)
(***************************************************************************)

\* C15: fact_check_single_pass raises only when the oracle call itself
\* raised; on a response that is not JSON, or is JSON other than an object
\* with a numeric confidence, it returns a record.
C15_MalformedResponseNeverRaises ==
    fcapc = "crashed" => fcaCalls[Len(fcaCalls)].kind = "raise"

\* the response is a JSON object whose confidence, if present, is a number
\* or a numeric string
WellFormed(resp) ==
    /\ resp.kind = "object"
    /\ Get(resp.data, "confidence", CNum(0)).type # "null"
    /\ Get(resp.data, "confidence", CNum(0)).type = "str" =>
          IsFloatText(Get(resp.data, "confidence", CNum(0)).text)

\* C16: when every oracle call either failed in transport or answered a
\* well-formed object, fact_check_assertions does not end in an exception:
\* the failing assertion gets a fallback and the others their verdicts.
C16_TransportFailureIsContained ==
    (\A k \in 1..Len(fcaCalls) :
        fcaCalls[k].kind \in {"raise", "nonjson"} \/ WellFormed(fcaCalls[k]))
        => fcapc # "crashed"

(***************************************************************************)
(* main.py: run_full_pipeline                                              *)
(***************************************************************************)

\* lines 48-53: the check of the chapter file
MainStart ==
    /\ mainpc = "idle"
    /\ mainpc' = IF chapter = "missing" THEN "returned" ELSE "stage1"
    /\ UNCHANGED <<fileVars, rawFile, aggFile, masterFile, s2Vars, mergepc,
                   decVars, s3Vars, chapter, s1Vars, fcaVars>>

\* what the extraction oracle does in a pipeline run
PipelineExtractResponses ==
    {NonJsonResponse, ArrayResponse(<<[original_statement |-> JStr(Text2)]>>)}

\* what the Stage-2 oracle does in a pipeline run
PipelineResponses ==
    {RaiseResponse, NonJsonResponse, One(0, "Supported", 9000),
     One(0, "Refuted", 9000)}

\* line 62: run_stage1(str(chapter_file))
MainStage1 ==
    /\ mainpc = "stage1"
    /\ \/ S1Start
       \/ \E resp \in PipelineExtractResponses : ExtractAttempt(resp)
       \/ S1FactCheck

\* line 68: merge_flagged_assertions()
MainMerge ==
    /\ mainpc = "merge"
    /\ \E files \in Orders(ResultFileNames) : MergeFlagged(files)

\* line 74: run_stage2_verification(num_passes=num_passes)
MainStage2 ==
    /\ mainpc = "stage2"
    /\ \/ \E n \in 1..MaxPasses : S2Start(n)
       \/ \E resp \in PipelineResponses : S2Pass(resp)
       \/ S2SaveRaw
       \/ S2Aggregate

\* line 80: generate_final_summary()
MainStage3 ==
    /\ mainpc = "stage3"
    /\ GenerateFinalSummary

\* lines 62-82: a stage returns and the next statement is reached, or its
\* exception leaves run_full_pipeline; a stage returns None whether it
\* completed or aborted, and the value is not looked at
MainReturn ==
    /\ \/ /\ mainpc = "stage1"
          /\ s1pc \in {"aborted", "crashed", "done"}
          /\ mainpc' = IF s1pc = "crashed" THEN "crashed" ELSE "merge"
       \/ /\ mainpc = "merge"
          /\ mergepc \in {"aborted", "done"}
          /\ mainpc' = "stage2"
       \/ /\ mainpc = "stage2"
          /\ s2pc \in {"aborted", "crashed", "done"}
          /\ mainpc' = IF s2pc = "crashed" THEN "crashed" ELSE "stage3"
       \/ /\ mainpc = "stage3"
          /\ s3pc \in {"aborted", "done"}
          /\ mainpc' = "done"
    /\ UNCHANGED <<fileVars, rawFile, aggFile, masterFile, s2Vars, mergepc,
                   decVars, s3Vars, chapter, s1Vars, fcaVars>>

\* the Stage-1 artifacts an earlier run may have left: none, empty lists,
\* or the rows of one or two assertions
LeftOutcomes ==
    {<<>>, <<<<Text1, "Refuted">>>>,
     <<<<Text1, "Supported">>, <<Text3, "Uncertain">>>>}

\* run_full_pipeline is called on a chapter, over what is on disk
InitPipeline ==
    /\ \/ /\ assertionsFile = NoRuns
          /\ resultsFile = NoRuns
       \/ \E left \in LeftOutcomes :
             /\ assertionsFile = [NoRuns EXCEPT ![1] = AssertionsOf(left)]
             /\ resultsFile = [NoRuns EXCEPT ![1] = ResultsOf(left, 1)]
    /\ strayResults = FALSE
    /\ globOrder = <<>>
    /\ evidenceFile \in {NoFile, File(<<>>), File(Store01)}
    /\ \/ rawFile = NoFile /\ aggFile = NoFile
       \/ \E run \in {AllPassesFailed,
                      <<One(0, "Refuted", 9000), One(0, "Refuted", 9000)>>} :
             /\ rawFile = File(RawFrom(run))
             /\ aggFile = File(AggregateAll(RawFrom(run)))
    /\ masterFile = NoFile
    /\ s2pc = "idle"
    /\ num_passes = 0
    /\ p = 1
    /\ assertions = <<>>
    /\ evidence_store = <<>>
    /\ all_pass_results = <<>>
    /\ responses = <<>>
    /\ prompts = <<>>
    /\ mergepc = "idle"
    /\ decIn = NoDecision
    /\ decOut = None
    /\ Stage3Idle
    /\ mainpc = "idle"
    /\ chapter \in Chapters
    /\ Stage1Idle

NextPipeline ==
    \/ MainStart
    \/ MainStage1
    \/ MainMerge
    \/ MainStage2
    \/ MainStage3
    \/ MainReturn

SpecPipeline == InitPipeline /\ [][NextPipeline]_vars

(***************************************************************************)
(* Properties of the pipeline                                              *)
(***************************************************************************)

\* C12: in a pipeline run the flagged list is built only after Stage 2 of
\* that run has been invoked and has returned, Stage 1 before and Stage 3
\* after.
C12_MergeAfterStage2 ==
    /\ mergepc = "done" => s2pc \in {"aborted", "crashed", "done"}
    /\ s2pc # "idle" => s1pc # "idle"
    /\ s3pc # "idle" => mergepc # "idle"

\* C13: when Stage 1 has aborted on a fatal precondition, no later stage
\* is executed.
C13_Stage1AbortHalts ==
    s1pc = "aborted" =>
        /\ mergepc = "idle"
        /\ s2pc = "idle"
        /\ s3pc = "idle"

\* every file of the output directory
OutputFiles ==
    <<assertionsFile, resultsFile, evidenceFile, rawFile, aggFile,
      masterFile, finalFile, summaryFile>>

\* a JSON file that is absent or holds an empty list or object
AbsentOrEmpty(file) == ~ file.exists \/ file.data = <<>>

\* C14: a stage called when an upstream artifact it requires is absent or
\* empty aborts, leaves every file of the output directory as it was and
\* sends nothing to the oracle: Stage 2 for the assertions file and the
\* evidence store, Stage 3 for the assertions, the Stage-1 verdicts and the
\* aggregate, the merge when there is no Stage-1 result file; an aborted
\* stage does nothing more.
C14_AbortWritesNothing ==
    [][ /\ (/\ s2pc = "idle" /\ s2pc' # "idle"
            /\ AbsentOrEmpty(assertionsFile[1]) \/ AbsentOrEmpty(evidenceFile))
              => /\ s2pc' = "aborted"
                 /\ OutputFiles' = OutputFiles
                 /\ prompts' = <<>> /\ responses' = <<>>
        /\ (/\ s3pc = "idle" /\ s3pc' # "idle"
            /\ \/ AbsentOrEmpty(assertionsFile[1])
               \/ AbsentOrEmpty(resultsFile[1])
               \/ AbsentOrEmpty(aggFile))
              => /\ s3pc' = "aborted"
                 /\ OutputFiles' = OutputFiles
        /\ (/\ mergepc = "idle" /\ mergepc' # "idle"
            /\ \A r \in RunIds : ~ resultsFile[r].exists)
              => /\ mergepc' = "aborted"
                 /\ OutputFiles' = OutputFiles
        /\ s2pc = "aborted" =>
              /\ s2pc' = "aborted"
              /\ prompts' = prompts /\ responses' = responses
              /\ rawFile' = rawFile /\ aggFile' = aggFile
        /\ s3pc = "aborted" => s3pc' = "aborted" /\ finalFile' = finalFile
        /\ mergepc = "aborted" =>
              mergepc' = "aborted" /\ masterFile' = masterFile
      ]_vars

\* a pipeline run over an output directory that holds last run's aggregate
\* only: the merge, Stage 2 and Stage 3 each aborted and nothing was written
C14_Witness ==
    /\ mainpc = "done"
    /\ mergepc = "aborted"
    /\ s2pc = "aborted"
    /\ s3pc = "aborted"
    /\ aggFile.exists
    /\ ~ masterFile.exists
    /\ ~ finalFile.exists
    /\ prompts = <<>>

(***************************************************************************)
(* Properties of the Stage-2 loop and of its two files                     *)
(***************************************************************************)

\* the items of pass q that reached all_pass_results
Kept(q) ==
    IF responses[q].kind \in {"array", "object"}
    THEN {j \in 1..Len(responses[q].items) :
             \A k \in 1..j : ~ HasKey(responses[q].items[k], "scalar")}
    ELSE {}

\* rec is item j of pass q with pass_id set to q
TaggedFrom(rec, q, j) ==
    /\ rec["pass_id"] = q
    /\ \A k \in DOMAIN responses[q].items[j] \ {"pass_id"} :
          HasKey(rec, k) /\ rec[k] = responses[q].items[j][k]
    /\ DOMAIN rec = DOMAIN responses[q].items[j] \cup {"pass_id"}

\* C24: every record collected by Stage 2, and so every record of the raw
\* passes file, carries the number of the pass whose response held it,
\* which is in 1..num_passes, whatever pass_id the oracle wrote; pass ids
\* never decrease along the list and no record carries the id of a pass
\* that was skipped.
C24_PassIdIsThePass ==
    /\ \A i \in 1..Len(all_pass_results) :
          /\ all_pass_results[i]["pass_id"] \in 1..num_passes
          /\ \E j \in Kept(all_pass_results[i]["pass_id"]) :
                TaggedFrom(all_pass_results[i],
                           all_pass_results[i]["pass_id"], j)
          /\ all_pass_results[i]["pass_id"] \notin FailedPasses
          /\ \A k \in 1..(i - 1) :
                all_pass_results[k]["pass_id"]
                    <= all_pass_results[i]["pass_id"]
    /\ \A q \in 1..Len(responses) :
          Cardinality({i \in 1..Len(all_pass_results) :
                          all_pass_results[i]["pass_id"] = q})
              = Cardinality(Kept(q))
    /\ rawFile.exists => rawFile.data = all_pass_results

\* the oracle wrote pass_id 9 in the item of pass 2, and the raw passes file
\* holds it under pass_id 2
C24_Witness ==
    /\ rawFile.exists
    /\ Len(responses) >= 2
    /\ responses[2] = ArrayResponse(<<OwnPassIdItem>>)
    /\ \E i \in 1..Len(rawFile.data) :
          /\ rawFile.data[i]["pass_id"] = 2
          /\ rawFile.data[i]["confidence"] = OwnPassIdItem["confidence"]

\* C25: the aggregated file is written only when all num_passes passes have
\* been made, each having contributed its records or been skipped, and the
\* collected pass results never change once the loop has been left.
C25_AggregationIsABarrier ==
    [][ /\ aggFile' # aggFile =>
              /\ Len(responses) = num_passes
              /\ p = num_passes + 1
              /\ rawFile.exists
              /\ rawFile.data = all_pass_results
        /\ rawFile' # rawFile => Len(responses) = num_passes
        /\ s2pc \in {"saveraw", "aggregate", "done"} =>
              /\ all_pass_results' = all_pass_results
              /\ responses' = responses
      ]_vars

\* three passes were made, one of them skipped, before the aggregate of what
\* the other two returned was written
C25_Witness ==
    /\ s2pc = "done"
    /\ num_passes = 3
    /\ Len(responses) = 3
    /\ Cardinality(FailedPasses) = 1
    /\ aggFile.exists
    /\ aggFile.data # <<>>

\* C26: as long as no oracle call raised, Stage 2 has sent one prompt per
\* pass made, it leaves the loop only after num_passes calls, it then
\* writes the raw passes file and after it the aggregated file and ends
\* normally; with num_passes = 0 no call is made and both files hold [].
C26_OneCallPerPass ==
    (\A q \in 1..Len(responses) : responses[q].kind # "raise") =>
        /\ Len(prompts) = Len(responses)
        /\ Len(responses) <= num_passes
        /\ s2pc # "crashed"
        /\ s2pc \in {"saveraw", "aggregate", "done"} =>
              Len(responses) = num_passes
        /\ s2pc = "aggregate" => rawFile.exists
        /\ s2pc = "done" => (rawFile.exists /\ aggFile.exists)
        /\ (s2pc = "done" /\ num_passes = 0) =>
              (prompts = <<>> /\ rawFile.data = <<>> /\ aggFile.data = <<>>)

\* C29: every AggregateRecord written by Stage 2 has the index of an
\* assertion of the assertions file the run loaded.
C29_AggregateIdsAreLoaded ==
    s2pc = "done" =>
        \A n \in 1..Len(aggFile.data) : aggFile.data[n]["index"] \in LoadedIds

\* C30: once Stage 2 has ended, normally or on an error, with its raw
\* passes file written, the aggregated file exists and holds a record for
\* exactly the ids that have a record in the raw passes file.
C30_FilesAgree ==
    (s2pc \in {"done", "crashed"} /\ rawFile.exists) =>
        /\ aggFile.exists
        /\ \A i \in 1..Len(rawFile.data) :
              HasKey(rawFile.data[i], "index") =>
                 AggAt(rawFile.data[i]["index"]) # {}
        /\ \A n \in 1..Len(aggFile.data) :
              RawSamples(aggFile.data[n]["index"]) # {}

\* C27: once Stage 3 has written its output, every FinalRecord's decision
\* is Supported, Refuted or Needs Review, the three counts of the summary
\* add up to its total, and the total is the number of FinalRecords and the
\* number of assertions of the assertions file.
C27_DecisionsAndCounts ==
    s3pc = "done" =>
        /\ \A n \in 1..Len(finalFile.data) :
              finalFile.data[n]["final_decision"]
                  \in {"Supported", "Refuted", "Needs Review"}
        /\ summaryFile.data.supported + summaryFile.data.refuted
              + summaryFile.data.needs_review = summaryFile.data.total
        /\ summaryFile.data.total = Len(finalFile.data)
        /\ summaryFile.data.total = Len(assertionsFile[1].data)
        /\ summaryFile.data.supported =
              Cardinality({n \in 1..Len(finalFile.data) :
                  finalFile.data[n]["final_decision"] = "Supported"})
        /\ summaryFile.data.refuted =
              Cardinality({n \in 1..Len(finalFile.data) :
                  finalFile.data[n]["final_decision"] = "Refuted"})

\* two assertions, one decided Supported and one whose majority Uncertain
\* became Needs Review
C27_Witness ==
    /\ s3pc = "done"
    /\ summaryFile.data.total = 2
    /\ summaryFile.data.needs_review = 1
    /\ summaryFile.data.supported = 1
    /\ \E n \in 1..Len(finalFile.data) :
          finalFile.data[n]["majority_verdict"] = "Uncertain"

(***************************************************************************)
(* Further properties of the merge                                         *)
(***************************************************************************)

\* normalized text of the assertion of run 1 that has index idx, the run
\* Stage 2 verifies (ASSERTIONS_PATH); empty when there is none
Run1TextAt(idx) ==
    Lower(Strip(Get(LookupByIndex(LoadJson(assertionsFile[1], <<>>), idx),
                    "original_statement", <<>>)))

\* C28: a master record taken from a run other than the one Stage 2
\* verified, for an assertion whose text is not the text Stage 2 judged
\* under that index, carries no Stage-2 majority and was flagged by its own
\* initial verdict.
C28_AggregateOfSameAssertion ==
    mergepc = "done" =>
        \A n \in 1..Len(masterFile.data) :
            LET rec == masterFile.data[n]
            IN  (/\ rec["run_id"] # 1
                 /\ Run1TextAt(rec["index"])
                        # Lower(Strip(rec["original_statement"])))
                    => /\ rec["stage2_majority"] = "Uncertain"
                       /\ rec["initial_verdict"] \in {"Refuted", "Uncertain"}

(***************************************************************************)
(* Further properties of run_stage1                                        *)
(***************************************************************************)

\* C23: when the chapter has text and extraction returned at least one
\* assertion, run_stage1 ends normally with the assertions file, the
\* evidence store and the Stage-1 verdicts file of run 1 written, the
\* verdicts file holding one record per assertion in assertion order.
C23_Stage1Persists ==
    (/\ chapter = "text"
     /\ s1pc \notin {"idle", "extract", "extracted"}
     /\ extracted # <<>>)
        => /\ s1pc = "done"
           /\ assertionsFile[1].exists
           /\ assertionsFile[1].data = extracted
           /\ evidenceFile.exists
           /\ resultsFile[1].exists
           /\ Len(resultsFile[1].data) = Len(extracted)
           /\ \A i \in 1..Len(extracted) :
                 /\ resultsFile[1].data[i]["index"] = extracted[i]["index"]
                 /\ resultsFile[1].data[i]["run_id"] = 1
                 /\ resultsFile[1].data[i]["pass_id"] = 1

(***************************************************************************)
(* One assertion through Stage 2, the merge and Stage 3, each stage run    *)
(* from its own command line with the default number of passes             *)
(***************************************************************************)

\* num_passes: int = 5, line 83, and --passes default
DefaultPasses == 5

\* one verdict for assertion 0 per pass
ScenarioResponses ==
    {One(0, l, c) : l \in Labels, c \in {5000, 9000}}

\* python run_stage2_verification.py
ScenarioStage2 ==
    \/ S2Start(DefaultPasses)
    \/ \E resp \in ScenarioResponses : S2Pass(resp)
    \/ S2SaveRaw
    \/ S2Aggregate

\* python build_master_flagged_list.py, after Stage 2
ScenarioMerge ==
    /\ s2pc = "done"
    /\ \E files \in Orders(ResultFileNames) : MergeFlagged(files)

\* python generate_final_summary.py, after Stage 2
ScenarioStage3 ==
    /\ s2pc = "done"
    /\ GenerateFinalSummary

\* Stage 1 left one assertion with its verdict and its evidence
InitScenario ==
    /\ \E l \in Labels :
          /\ assertionsFile =
                [NoRuns EXCEPT ![1] = AssertionsOf(<<<<Text1, l>>>>)]
          /\ resultsFile =
                [NoRuns EXCEPT ![1] = ResultsOf(<<<<Text1, l>>>>, 1)]
    /\ strayResults = FALSE
    /\ globOrder = <<>>
    /\ evidenceFile = File(Store01)
    /\ rawFile = NoFile
    /\ aggFile = NoFile
    /\ masterFile = NoFile
    /\ s2pc = "idle"
    /\ num_passes = 0
    /\ p = 1
    /\ assertions = <<>>
    /\ evidence_store = <<>>
    /\ all_pass_results = <<>>
    /\ responses = <<>>
    /\ prompts = <<>>
    /\ mergepc = "idle"
    /\ decIn = NoDecision
    /\ decOut = None
    /\ Stage3Idle
    /\ MainIdle
    /\ Stage1Idle

NextScenario ==
    \/ ScenarioStage2
    \/ ScenarioMerge
    \/ ScenarioStage3

SpecScenario == InitScenario /\ [][NextScenario]_vars

(***************************************************************************)
(* Properties of the scenarios                                             *)
(***************************************************************************)

\* the labels the passes returned for assertion 0, in pass order
PassLabels ==
    [q \in 1..Len(responses) |-> responses[q].items[1]["final_verdict"]]

PassConfidences ==
    [q \in 1..Len(responses) |-> responses[q].items[1]["confidence"]]

InitialVerdict == resultsFile[1].data[1]["final_verdict"]

\* C21: when the five passes returned Supported, Refuted, Uncertain,
\* Supported, Refuted and the initial verdict is Supported, the aggregate
\* has majority Uncertain and ratio 0.4, the final decision is Needs Review
\* and the assertion is in the master flagged list.
C21_TiedFivePasses ==
    (/\ PassLabels = <<"Supported", "Refuted", "Uncertain", "Supported",
                       "Refuted">>
     /\ InitialVerdict = "Supported")
        => /\ s2pc = "done" =>
                 /\ aggFile.data[1]["majority_verdict"] = "Uncertain"
                 /\ aggFile.data[1]["agreement_ratio"] = 4000
           /\ s3pc = "done" =>
                 finalFile.data[1]["final_decision"] = "Needs Review"
           /\ mergepc = "done" => Len(masterFile.data) = 1

\* every pass returned label l with confidence c
AllPassesSay(l, c) ==
    /\ Len(responses) = num_passes
    /\ \A q \in 1..Len(responses) :
          PassLabels[q] = l /\ PassConfidences[q] = c

\* C22: when all passes returned the same label L, Supported or Refuted,
\* with the same confidence c, the aggregate has majority L, ratio 1.0 and
\* mean confidence c, the final decision is L, and with initial verdict
\* Supported and L = Supported the assertion is not in the flagged list.
C22_UnanimousPasses ==
    \A l \in {"Supported", "Refuted"}, c \in {5000, 9000} :
        (s2pc = "done" /\ AllPassesSay(l, c)) =>
            /\ Len(aggFile.data) = 1
            /\ aggFile.data[1]["majority_verdict"] = l
            /\ aggFile.data[1]["agreement_ratio"] = Scale
            /\ aggFile.data[1]["mean_confidence"] = c
            /\ s3pc = "done" =>
                  /\ Len(finalFile.data) = 1
                  /\ finalFile.data[1]["final_decision"] = l
            /\ (mergepc # "idle" /\ l = "Supported"
                    /\ InitialVerdict = "Supported") =>
                  (masterFile.exists => masterFile.data = <<>>)

\* five passes of Supported at 0.9 over an assertion Stage 1 supported: all
\* three stages ran, the decision is Supported and nothing is flagged
C22_Witness ==
    /\ s2pc = "done" /\ s3pc = "done" /\ mergepc = "done"
    /\ num_passes = 5
    /\ AllPassesSay("Supported", 9000)
    /\ InitialVerdict = "Supported"
    /\ finalFile.data[1]["final_decision"] = "Supported"
    /\ masterFile.data = <<>>

====
